---- MODULE Spec2Model ----
(***************************************************************************)
(* Handy context bridge and context resolution.                            *)
(*                                                                         *)
(*  - the browser extension's background script (bridge client): the       *)
(*    module variables ws and reconnectInterval, connect(), the socket     *)
(*    handlers, sendCurrentContext()/sendContext(), detectApp() and the    *)
(*    chrome.tabs listeners;                                               *)
(*  - the extension popup's checkConnection() probe;                       *)
(*  - the settings screen ContextMappingsList: DEFAULT_APPS, loadData,     *)
(*    getStyleForApp, handleStyleChange, handleResetMapping;               *)
(*  - the settings screens ContextPromptEditor, CloudSTTSettings (with     *)
(*    ApiKeyInput and CloudModelSelector) and TranscriptionSettings;       *)
(*  - the RecordingOverlay window and its event listeners;                 *)
(*  - the Onboarding window's cloud setup view.                            *)
(*                                                                         *)
(* The desktop side of the bridge (the socket server and the store behind  *)
(* the commands) is not part of the sources; it is modelled from the       *)
(* specification and marked so where it appears.                           *)
(***************************************************************************)
EXTENDS Integers, Sequences, FiniteSets, TLC

VARIABLES
    ws,                 \* background script: the module's socket handle
    reconnectInterval,  \* background script: the module's interval handle
    readyState,         \* readyState of every WebSocket object made by connect()
    timers,             \* interval timers the browser currently runs
    pending,            \* sendCurrentContext() calls suspended at their await
    chan,               \* per socket: frames sent and not yet read by the server
    lost,               \* open sockets whose connection is gone, close event due
    activeTab,          \* browser: the active tab of the current window
    tabUrl,             \* browser: the url of every tab
    serverUp,           \* desktop app: the bridge server is listening
    serverCtx,          \* desktop app: the "current browser context" record
    probes,             \* popup: the sockets made by checkConnection()
    hostMappings,       \* desktop app: the persisted context mapping table
    mappings,           \* ContextMappingsList: the mappings state
    isLoading,          \* ContextMappingsList: the isLoading state
    prompts,            \* ContextMappingsList: the prompts state
    hostPrompts,        \* desktop app: the persisted style prompt store
    editorPrompts,      \* ContextPromptEditor: the prompts state
    editorIsLoading,    \* ContextPromptEditor: the isLoading state
    selectedPromptId,   \* ContextPromptEditor: the selectedPromptId state
    draftName,          \* ContextPromptEditor: the draftName state
    draftDescription,   \* ContextPromptEditor: the draftDescription state
    draftPrompt,        \* ContextPromptEditor: the draftPrompt state
    isSaving,           \* ContextPromptEditor: the isSaving state
    request,            \* ContextPromptEditor: the command awaited by a handler
    hostConfig,         \* desktop app: the persisted CloudSTTConfig
    providers,          \* CloudSTTSettings: the providers state
    config,             \* CloudSTTSettings: the config state
    cloudIsLoading,     \* CloudSTTSettings: the isLoading state
    localValue,         \* ApiKeyInput: the localValue state
    testIsLoading,      \* ApiKeyInput: the isLoading state
    testResult,         \* ApiKeyInput: the testResult state
    testRequest,        \* ApiKeyInput: the connection test awaited by handleTest
    lifecycle,          \* desktop app: the last lifecycle signal it emitted
    isVisible,          \* RecordingOverlay: the isVisible state
    state,              \* RecordingOverlay: the state state
    detectedContext,    \* RecordingOverlay: the detectedContext state
    shows,              \* RecordingOverlay: show-overlay handlers at their await
    onboardingMode,     \* Onboarding: the mode state
    cloudConfigured,    \* Onboarding: the cloudConfigured state
    configFetch,        \* Onboarding: a handleCloudConfigChange call is at its await
    modelSelected,      \* Onboarding: the onModelSelected prop has been called
    mode,               \* TranscriptionSettings: the mode state
    modeIsLoading       \* TranscriptionSettings: the isLoading state

bridgeVars == <<ws, reconnectInterval, readyState, timers, pending, chan, lost,
                activeTab, tabUrl, serverUp, serverCtx, probes>>
mappingVars == <<hostMappings, mappings, isLoading, prompts>>
editorVars == <<editorPrompts, editorIsLoading, selectedPromptId, draftName,
                draftDescription, draftPrompt, isSaving, request>>
cloudVars == <<hostConfig, providers, config, cloudIsLoading, localValue,
               testIsLoading, testResult, testRequest>>
overlayVars == <<lifecycle, isVisible, state, detectedContext, shows>>
onboardVars == <<onboardingMode, cloudConfigured, configFetch, modelSelected>>
transcriptionVars == <<mode, modeIsLoading>>
\* the overlay and the transcription settings
otherUiVars == <<overlayVars, transcriptionVars>>
\* the windows other than the settings screens
uiVars == <<otherUiVars, onboardVars>>
\* everything the settings screens hold, with the stores behind them, and
\* the other windows
settingsVars == <<mappingVars, hostPrompts, editorVars, cloudVars, uiVars>>
vars == <<ws, reconnectInterval, readyState, timers, pending, chan, lost,
          activeTab, tabUrl, serverUp, serverCtx, probes,
          hostMappings, mappings, isLoading, prompts, hostPrompts,
          editorPrompts, editorIsLoading, selectedPromptId, draftName,
          draftDescription, draftPrompt, isSaving, request,
          hostConfig, providers, config, cloudIsLoading, localValue,
          testIsLoading, testResult, testRequest,
          lifecycle, isVisible, state, detectedContext, shows,
          onboardingMode, cloudConfigured, configFetch, modelSelected,
          mode, modeIsLoading>>

(***************************************************************************)
(* Bounds of the model.                                                    *)
(***************************************************************************)
\* WebSocket objects of the background script that are alive at once
MaxSockets == 2
\* interval timers that can run at once
MaxTimers == 2
\* sendCurrentContext() calls suspended at once
MaxPending == 2
\* frames in flight on one connection
MaxQueue == 1
\* probe sockets of the popup that are alive at once
MaxProbes == 1

Sockets == 1..MaxSockets
TimerIds == 1..MaxTimers
ProbeIds == 1..MaxProbes

\* JavaScript null, for the two handles
NULL == 0

(***************************************************************************)
(* Tabs, urls and the context message.                                     *)
(***************************************************************************)
Tabs == {1, 2}

\* tab.url of a tab the extension may not read, or that has none
NoUrl == "undefined"

TabUrls == {"https://mail.google.com/mail/u/0/",
            "https://example.com/docs",
            "http://constructor/"}

\* the urls the model's user navigates to
NavUrls == {"https://mail.google.com/mail/u/0/", "https://example.com/docs"}

\* new URL(u).hostname
Hostname(u) ==
    CASE u = "https://mail.google.com/mail/u/0/" -> "mail.google.com"
      [] u = "https://example.com/docs" -> "example.com"
      [] u = "http://constructor/" -> "constructor"
      [] OTHER -> ""

\* tab.title of the page at u ("" when the page has none)
TitleOf(u) ==
    CASE u = "https://mail.google.com/mail/u/0/" -> "Inbox"
      [] u = "https://example.com/docs" -> "Docs"
      [] OTHER -> ""

\* the object literal of detectApp
detectAppMappings ==
    [domain \in {"mail.google.com", "outlook.office.com", "outlook.live.com",
                 "outlook.office365.com", "app.slack.com", "discord.com",
                 "web.whatsapp.com", "web.telegram.org", "chat.openai.com",
                 "chatgpt.com", "claude.ai", "notion.so", "www.notion.so",
                 "www.linkedin.com", "linkedin.com", "twitter.com", "x.com",
                 "github.com", "www.github.com", "linear.app",
                 "teams.microsoft.com"} |->
        CASE domain = "mail.google.com" -> "gmail"
          [] domain \in {"outlook.office.com", "outlook.live.com",
                         "outlook.office365.com"} -> "outlook_web"
          [] domain = "app.slack.com" -> "slack_web"
          [] domain = "discord.com" -> "discord_web"
          [] domain = "web.whatsapp.com" -> "whatsapp_web"
          [] domain = "web.telegram.org" -> "telegram_web"
          [] domain \in {"chat.openai.com", "chatgpt.com"} -> "chatgpt"
          [] domain = "claude.ai" -> "claude"
          [] domain \in {"notion.so", "www.notion.so"} -> "notion_web"
          [] domain \in {"www.linkedin.com", "linkedin.com"} -> "linkedin"
          [] domain \in {"twitter.com", "x.com"} -> "twitter"
          [] domain \in {"github.com", "www.github.com"} -> "github"
          [] domain = "linear.app" -> "linear_web"
          [] domain = "teams.microsoft.com" -> "teams_web"]

\* What an object literal inherits from Object.prototype: a property read
\* obj[key] that finds no own property continues along the prototype chain.
ObjectPrototype ==
    [key \in {"constructor", "__proto__", "toString", "valueOf",
              "hasOwnProperty", "isPrototypeOf", "propertyIsEnumerable",
              "toLocaleString"} |->
        IF key = "__proto__" THEN "[object Object]" ELSE "[Function]"]

\* obj[key] for an object literal obj
GetProperty(obj, key) ==
    IF key \in DOMAIN obj THEN obj[key]
    ELSE IF key \in DOMAIN ObjectPrototype THEN ObjectPrototype[key]
    ELSE "undefined"

\* JavaScript truthiness of the values GetProperty yields
Truthy(v) == v \notin {"undefined", "null", ""}

detectApp(domain) ==
    LET v == GetProperty(detectAppMappings, domain)
    IN  IF Truthy(v) THEN v ELSE "null"

\* JSON.stringify of a property value: a function-valued property is left out
\* of the text, an object without own enumerable properties is written {}
JSONValue(v) ==
    CASE v = "[Function]" -> "<omitted>"
      [] v = "[object Object]" -> "{}"
      [] OTHER -> v

\* the object literal sendCurrentContext passes to sendContext, for a tab
\* whose url is u
ContextOf(u) ==
    [browser |-> "chrome",
     url |-> u,
     domain |-> Hostname(u),
     page_title |-> TitleOf(u),
     detected_app |-> detectApp(Hostname(u))]

\* JSON.stringify(context): the frame on the wire
JSONstringify(context) ==
    [context EXCEPT !.detected_app = JSONValue(@)]

\* the server's record before any push
NoContext ==
    [browser |-> "", url |-> "", domain |-> "", page_title |-> "",
     detected_app |-> ""]

(***************************************************************************)
(* sendCurrentContext(): a call runs to its await of chrome.tabs.query,    *)
(* the browser answers the query, and the rest of the call runs later.     *)
(***************************************************************************)
\* a call suspended at the await; origin is the caller, sock the socket whose
\* onopen made the call (NULL for the tab listeners); tab and url are those of
\* the tab the query returns
Call(origin, sock) ==
    [origin |-> origin, sock |-> sock, answered |-> FALSE, tab |-> NULL,
     url |-> NoUrl]

sendCurrentContext_start(origin, sock) ==
    pending' = Append(pending, Call(origin, sock))

sendContext(context) ==
    IF ws # NULL /\ readyState[ws] = "OPEN"
    THEN chan' = [chan EXCEPT ![ws] = Append(@, JSONstringify(context))]
    ELSE UNCHANGED chan

\* the rest of sendCurrentContext once the query has returned [tab]
sendCurrentContext_resume(call) ==
    IF call.url # NoUrl
    THEN sendContext(ContextOf(call.url))
    ELSE UNCHANGED chan

(***************************************************************************)
(* connect() and the handlers it installs.                                 *)
(***************************************************************************)
\* WebSocket objects nothing refers to any more
FreeSockets ==
    {s \in Sockets :
        /\ readyState[s] = "CLOSED"
        /\ \A i \in 1..Len(pending) : pending[i].sock # s}

NewSocket == CHOOSE s \in FreeSockets : \A t \in FreeSockets : s <= t

NewTimer == CHOOSE t \in TimerIds \ timers : \A u \in TimerIds \ timers : t <= u

connect ==
    IF ws # NULL /\ readyState[ws] = "OPEN"
    THEN UNCHANGED <<ws, readyState>>
    ELSE /\ FreeSockets # {}
         /\ ws' = NewSocket
         /\ readyState' = [readyState EXCEPT ![NewSocket] = "CONNECTING"]

\* ws.onopen of socket s
onopen(s) ==
    /\ IF reconnectInterval # NULL
       THEN /\ timers' = timers \ {reconnectInterval}
            /\ reconnectInterval' = NULL
       ELSE UNCHANGED <<timers, reconnectInterval>>
    /\ sendCurrentContext_start("onopen", s)

\* onclose_schedule without a setInterval: the close is only logged
onclose_schedule_never ==
    UNCHANGED <<timers, reconnectInterval>>

\* onclose_schedule without its test of reconnectInterval
onclose_schedule_unguarded ==
    /\ TimerIds \ timers # {}
    /\ reconnectInterval' = NewTimer
    /\ timers' = timers \cup {NewTimer}

\* the scheduling half of ws.onclose
onclose_schedule ==
    IF reconnectInterval = NULL
    THEN /\ TimerIds \ timers # {}
         /\ reconnectInterval' = NewTimer
         /\ timers' = timers \cup {NewTimer}
    ELSE UNCHANGED <<timers, reconnectInterval>>

\* ws.onclose (of any socket: the handler names the module variable ws)
onclose ==
    /\ ws' = NULL
    /\ onclose_schedule

(***************************************************************************)
(* Events of the background script.                                        *)
(***************************************************************************)
\* the interval timer fires: connect()
ReconnectTick ==
    /\ timers # {}
    /\ connect
    /\ UNCHANGED <<reconnectInterval, timers, pending, chan, lost, activeTab,
                   tabUrl, serverUp, serverCtx, probes, settingsVars>>

\* the interval timer fires when every connection attempt made so far has
\* been answered (the server answers an attempt within the 5 s interval)
ReconnectTickAnswered ==
    /\ \A s \in Sockets : readyState[s] # "CONNECTING"
    /\ ReconnectTick

\* the connection of socket s is established: readyState OPEN, open event
SocketOpen(s) ==
    /\ readyState[s] = "CONNECTING"
    /\ serverUp
    /\ Len(pending) < MaxPending
    /\ readyState' = [readyState EXCEPT ![s] = "OPEN"]
    /\ onopen(s)
    /\ UNCHANGED <<ws, chan, lost, activeTab, tabUrl, serverUp, serverCtx,
                   probes, settingsVars>>

\* the connection attempt of socket s fails: readyState CLOSED, error event
\* (onerror only logs), close event
SocketError(s) ==
    /\ readyState[s] = "CONNECTING"
    /\ ~serverUp
    /\ readyState' = [readyState EXCEPT ![s] = "CLOSED"]
    /\ onclose
    /\ UNCHANGED <<pending, chan, lost, activeTab, tabUrl, serverUp, serverCtx,
                   probes, settingsVars>>

\* the close event of an open socket whose connection is gone
SocketClose(s) ==
    /\ readyState[s] = "OPEN"
    /\ s \in lost
    /\ readyState' = [readyState EXCEPT ![s] = "CLOSED"]
    /\ lost' = lost \ {s}
    /\ chan' = [chan EXCEPT ![s] = <<>>]
    /\ onclose
    /\ UNCHANGED <<pending, activeTab, tabUrl, serverUp, serverCtx,
                   probes, settingsVars>>

\* chrome.tabs.query({active: true, currentWindow: true}) is answered. The
\* browser answers the calls one at a time and in the order they were made:
\* the oldest call gets its answer, and resumes before the next is answered.
QueryAnswer ==
    /\ pending # <<>>
    /\ ~Head(pending).answered
    /\ pending' = [pending EXCEPT ![1].answered = TRUE,
                                  ![1].tab = activeTab,
                                  ![1].url = tabUrl[activeTab]]
    /\ UNCHANGED <<ws, reconnectInterval, readyState, timers, chan, lost,
                   activeTab, tabUrl, serverUp, serverCtx, probes,
                   settingsVars>>

\* the frame the call would send fits the connection's queue
HasRoom(call) ==
    IF call.url # NoUrl /\ ws # NULL
    THEN readyState[ws] = "OPEN" => Len(chan[ws]) < MaxQueue
    ELSE TRUE

\* the oldest call resumes after its await
QueryResume ==
    /\ pending # <<>>
    /\ Head(pending).answered
    /\ HasRoom(Head(pending))
    /\ sendCurrentContext_resume(Head(pending))
    /\ pending' = Tail(pending)
    /\ UNCHANGED <<ws, reconnectInterval, readyState, timers, lost, activeTab,
                   tabUrl, serverUp, serverCtx, probes, settingsVars>>

\* a tab activation that starts no push
TabActivated_noPush(t) ==
    /\ t # activeTab
    /\ Len(pending) < MaxPending
    /\ activeTab' = t
    /\ UNCHANGED <<ws, reconnectInterval, readyState, timers, pending, chan,
                   lost, tabUrl, serverUp, serverCtx, probes, settingsVars>>

\* chrome.tabs.onActivated: the user makes tab t the active tab
TabActivated(t) ==
    /\ t # activeTab
    /\ Len(pending) < MaxPending
    /\ activeTab' = t
    /\ sendCurrentContext_start("onActivated", NULL)
    /\ UNCHANGED <<ws, reconnectInterval, readyState, timers, chan, lost,
                   tabUrl, serverUp, serverCtx, probes, settingsVars>>

\* onUpdated without its test of tab.active
onUpdated_anyTab(status, active) ==
    IF status = "complete"
    THEN sendCurrentContext_start("onUpdated", NULL)
    ELSE UNCHANGED pending

\* the listener of chrome.tabs.onUpdated
onUpdated(status, active) ==
    IF status = "complete" /\ active
    THEN sendCurrentContext_start("onUpdated", NULL)
    ELSE UNCHANGED pending

\* tab t commits a navigation to u: onUpdated with status loading
TabNavigated(t, u) ==
    /\ tabUrl[t] # u
    /\ tabUrl' = [tabUrl EXCEPT ![t] = u]
    /\ onUpdated("loading", t = activeTab)
    /\ UNCHANGED <<ws, reconnectInterval, readyState, timers, chan, lost,
                   activeTab, serverUp, serverCtx, probes, settingsVars>>

\* tab t finishes loading: onUpdated with status complete
TabComplete(t) ==
    /\ Len(pending) < MaxPending
    /\ onUpdated("complete", t = activeTab)
    /\ UNCHANGED <<ws, reconnectInterval, readyState, timers, chan, lost,
                   activeTab, tabUrl, serverUp, serverCtx, probes, settingsVars>>

(***************************************************************************)
(* The desktop side of the bridge, from the specification: a loopback      *)
(* server that overwrites its record with every frame it reads.            *)
(***************************************************************************)
ServerStart ==
    /\ ~serverUp
    /\ serverUp' = TRUE
    /\ UNCHANGED <<ws, reconnectInterval, readyState, timers, pending, chan,
                   lost, activeTab, tabUrl, serverCtx, probes, settingsVars>>

\* the desktop app exits: its record is gone, its connections are gone
ServerStop ==
    /\ serverUp
    /\ serverUp' = FALSE
    /\ serverCtx' = NoContext
    /\ lost' = {s \in Sockets : readyState[s] = "OPEN"}
    /\ chan' = [s \in Sockets |-> <<>>]
    /\ UNCHANGED <<ws, reconnectInterval, readyState, timers, pending,
                   activeTab, tabUrl, probes, settingsVars>>

\* one connection is lost while the server keeps running
ConnectionDrop(s) ==
    /\ readyState[s] = "OPEN"
    /\ s \notin lost
    /\ lost' = lost \cup {s}
    /\ chan' = [chan EXCEPT ![s] = <<>>]
    /\ UNCHANGED <<ws, reconnectInterval, readyState, timers, pending,
                   activeTab, tabUrl, serverUp, serverCtx, probes, settingsVars>>

\* ServerStore keeping the fields of the old record that the frame leaves
\* unknown: an update of fields instead of a replacement of the record
ServerStore_merge(old, m) ==
    IF m.detected_app = "null" /\ old # NoContext
    THEN [m EXCEPT !.detected_app = old.detected_app]
    ELSE m

\* the server's record after reading frame m
ServerStore(old, m) == m

\* the server reads the next frame of connection s
ServerReceive(s) ==
    /\ serverUp
    /\ readyState[s] = "OPEN"
    /\ s \notin lost
    /\ chan[s] # <<>>
    /\ serverCtx' = ServerStore(serverCtx, Head(chan[s]))
    /\ chan' = [chan EXCEPT ![s] = Tail(@)]
    /\ UNCHANGED <<ws, reconnectInterval, readyState, timers, pending, lost,
                   activeTab, tabUrl, serverUp, probes, settingsVars>>

(***************************************************************************)
(* The popup: checkConnection() opens a socket of its own to the server.   *)
(***************************************************************************)
\* new WebSocket(...) in checkConnection
checkConnection(p) ==
    /\ probes[p] = "CLOSED"
    /\ probes' = [probes EXCEPT ![p] = "CONNECTING"]
    /\ UNCHANGED <<ws, reconnectInterval, readyState, timers, pending, chan,
                   lost, activeTab, tabUrl, serverUp, serverCtx, settingsVars>>

\* the probe's onopen: ws.close(), resolve(true)
ProbeOpen(p) ==
    /\ probes[p] = "CONNECTING"
    /\ serverUp
    /\ probes' = [probes EXCEPT ![p] = "CLOSING"]
    /\ UNCHANGED <<ws, reconnectInterval, readyState, timers, pending, chan,
                   lost, activeTab, tabUrl, serverUp, serverCtx, settingsVars>>

\* the probe's onerror: resolve(false)
ProbeError(p) ==
    /\ probes[p] = "CONNECTING"
    /\ ~serverUp
    /\ probes' = [probes EXCEPT ![p] = "CLOSED"]
    /\ UNCHANGED <<ws, reconnectInterval, readyState, timers, pending, chan,
                   lost, activeTab, tabUrl, serverUp, serverCtx, settingsVars>>

\* the closing handshake of a probe ends
ProbeClosed(p) ==
    /\ probes[p] = "CLOSING"
    /\ probes' = [probes EXCEPT ![p] = "CLOSED"]
    /\ UNCHANGED <<ws, reconnectInterval, readyState, timers, pending, chan,
                   lost, activeTab, tabUrl, serverUp, serverCtx, settingsVars>>

(***************************************************************************)
(* ContextMappingsList (settings screen).                                  *)
(***************************************************************************)
DEFAULT_APPS ==
    << [id |-> "gmail", name |-> "Gmail", defaultStyle |-> "email_pro"],
       [id |-> "outlook", name |-> "Outlook", defaultStyle |-> "email_pro"],
       [id |-> "outlook_web", name |-> "Outlook Web", defaultStyle |-> "email_pro"],
       [id |-> "apple_mail", name |-> "Apple Mail", defaultStyle |-> "email_pro"],
       [id |-> "slack", name |-> "Slack", defaultStyle |-> "chat"],
       [id |-> "slack_web", name |-> "Slack Web", defaultStyle |-> "chat"],
       [id |-> "discord", name |-> "Discord", defaultStyle |-> "chat"],
       [id |-> "discord_web", name |-> "Discord Web", defaultStyle |-> "chat"],
       [id |-> "whatsapp", name |-> "WhatsApp", defaultStyle |-> "chat"],
       [id |-> "whatsapp_web", name |-> "WhatsApp Web", defaultStyle |-> "chat"],
       [id |-> "telegram", name |-> "Telegram", defaultStyle |-> "chat"],
       [id |-> "telegram_web", name |-> "Telegram Web", defaultStyle |-> "chat"],
       [id |-> "imessage", name |-> "iMessage", defaultStyle |-> "chat"],
       [id |-> "vscode", name |-> "VS Code", defaultStyle |-> "code"],
       [id |-> "cursor", name |-> "Cursor", defaultStyle |-> "code"],
       [id |-> "notion", name |-> "Notion", defaultStyle |-> "notes"],
       [id |-> "notion_web", name |-> "Notion Web", defaultStyle |-> "notes"],
       [id |-> "obsidian", name |-> "Obsidian", defaultStyle |-> "notes"],
       [id |-> "chatgpt", name |-> "ChatGPT", defaultStyle |-> "ai_assistant"],
       [id |-> "claude", name |-> "Claude", defaultStyle |-> "ai_assistant"],
       [id |-> "linkedin", name |-> "LinkedIn", defaultStyle |-> "social_pro"],
       [id |-> "twitter", name |-> "Twitter/X", defaultStyle |-> "social_casual"],
       [id |-> "github", name |-> "GitHub", defaultStyle |-> "dev_tools"],
       [id |-> "linear", name |-> "Linear", defaultStyle |-> "dev_tools"],
       [id |-> "linear_web", name |-> "Linear Web", defaultStyle |-> "dev_tools"] >>

\* Array.prototype.find on the two tables: the first element with the key,
\* as a sequence of one element, or << >> for undefined
FirstIndex(I) == CHOOSE i \in I : \A j \in I : i <= j

findDefaultApp(appId) ==
    LET I == {i \in 1..Len(DEFAULT_APPS) : DEFAULT_APPS[i].id = appId}
    IN  IF I = {} THEN <<>> ELSE <<DEFAULT_APPS[FirstIndex(I)]>>

findMapping(list, appId) ==
    LET I == {i \in 1..Len(list) : list[i].app_id = appId}
    IN  IF I = {} THEN <<>> ELSE <<list[FirstIndex(I)]>>

\* getStyleForApp consulting DEFAULT_APPS before the mappings
getStyleForApp_defaultFirst(appId) ==
    LET mapping == findMapping(mappings, appId)
        defaultApp == findDefaultApp(appId)
    IN  IF defaultApp # <<>> /\ Truthy(defaultApp[1].defaultStyle)
        THEN defaultApp[1].defaultStyle
        ELSE IF mapping # <<>> THEN mapping[1].context_style
             ELSE "correction"

\* getStyleForApp without its lookup in DEFAULT_APPS
getStyleForApp_noDefault(appId) ==
    LET mapping == findMapping(mappings, appId)
    IN  IF mapping # <<>> THEN mapping[1].context_style ELSE "correction"

\* getStyleForApp without the || "correction" of its last line
getStyleForApp_noFallback(appId) ==
    LET mapping == findMapping(mappings, appId)
        defaultApp == findDefaultApp(appId)
    IN  IF mapping # <<>> THEN mapping[1].context_style
        ELSE IF defaultApp # <<>> THEN defaultApp[1].defaultStyle
             ELSE "undefined"

getStyleForApp(appId) ==
    LET mapping == findMapping(mappings, appId)
        defaultApp == findDefaultApp(appId)
    IN  IF mapping # <<>> THEN mapping[1].context_style
        ELSE IF defaultApp # <<>> /\ Truthy(defaultApp[1].defaultStyle)
             THEN defaultApp[1].defaultStyle
             ELSE "correction"

\* defaultApp?.defaultStyle !== currentStyle
isCustomMapping(appId) ==
    LET defaultApp == findDefaultApp(appId)
        currentStyle == getStyleForApp(appId)
    IN  IF defaultApp = <<>> THEN TRUE
        ELSE defaultApp[1].defaultStyle # currentStyle

\* the apps arrays of the categories the list renders
categories ==
    << [key |-> "email", apps |-> <<"gmail", "outlook", "outlook_web", "apple_mail">>],
       [key |-> "chat",
        apps |-> <<"slack", "slack_web", "discord", "discord_web", "whatsapp",
                   "whatsapp_web", "telegram", "telegram_web", "imessage">>],
       [key |-> "code", apps |-> <<"vscode", "cursor">>],
       [key |-> "notes", apps |-> <<"notion", "notion_web", "obsidian">>],
       [key |-> "ai", apps |-> <<"chatgpt", "claude">>],
       [key |-> "social", apps |-> <<"linkedin", "twitter">>],
       [key |-> "dev", apps |-> <<"github", "linear", "linear_web">>] >>

\* the app rows and the style options the model's user acts on
UiApps == {"gmail", "slack_web"}
UiStyles == {"email_pro", "chat", "notes"}

\* The store behind updateContextMapping / deleteContextMapping, from the
\* specification: one mapping per app_id, updated in place.
HostUpdate(table, appId, style) ==
    IF findMapping(table, appId) # <<>>
    THEN [i \in 1..Len(table) |->
            IF table[i].app_id = appId
            THEN [app_id |-> appId, context_style |-> style]
            ELSE table[i]]
    ELSE Append(table, [app_id |-> appId, context_style |-> style])

HostDelete(table, appId) ==
    SelectSeq(table, LAMBDA m : m.app_id # appId)

(***************************************************************************)
(* The style prompt store of the desktop app, from the specification: the  *)
(* builtin prompts with their factory content, and one custom prompt.      *)
(***************************************************************************)
\* JavaScript null as a command argument
null == "null"

FactoryPrompts ==
    << [id |-> "correction", name |-> "Correction",
        description |-> "Fix mistakes", prompt |-> "Correct the text",
        is_builtin |-> TRUE],
       [id |-> "email_pro", name |-> "Email",
        description |-> "Professional email", prompt |-> "Write as an email",
        is_builtin |-> TRUE],
       [id |-> "chat", name |-> "Chat",
        description |-> "Casual chat", prompt |-> "Write as a message",
        is_builtin |-> TRUE],
       [id |-> "notes", name |-> "Notes",
        description |-> "Note taking", prompt |-> "Write as notes",
        is_builtin |-> TRUE] >>

\* a prompt the user has created
CustomPrompt ==
    [id |-> "my_style", name |-> "Mine", description |-> "My own style",
     prompt |-> "Write it my way", is_builtin |-> FALSE]

\* Array.prototype.find on a list of prompts
findPrompt(list, id) ==
    LET I == {i \in 1..Len(list) : list[i].id = id}
    IN  IF I = {} THEN <<>> ELSE <<list[FirstIndex(I)]>>

\* the ids of a list of prompts
PromptIds(list) == {list[i].id : i \in 1..Len(list)}

\* updateContextStylePrompt: any subset of the fields, null leaves a field
\* as it is
HostUpdatePromptValid(store, id) == findPrompt(store, id) # <<>>

HostUpdatePrompt(store, id, name, description, prompt) ==
    [i \in 1..Len(store) |->
        IF store[i].id = id
        THEN [store[i] EXCEPT
                !.name = IF name = null THEN @ ELSE name,
                !.description = IF description = null THEN @ ELSE description,
                !.prompt = IF prompt = null THEN @ ELSE prompt]
        ELSE store[i]]

\* resetContextStylePrompt: builtin only
HostResetPromptValid(store, id) ==
    /\ findPrompt(store, id) # <<>>
    /\ findPrompt(store, id)[1].is_builtin
    /\ findPrompt(FactoryPrompts, id) # <<>>

\* a reset that restores the name only
HostResetPrompt_nameOnly(store, id) ==
    [i \in 1..Len(store) |->
        IF store[i].id = id
        THEN [store[i] EXCEPT !.name = findPrompt(FactoryPrompts, id)[1].name]
        ELSE store[i]]

HostResetPrompt(store, id) ==
    [i \in 1..Len(store) |->
        IF store[i].id = id
        THEN findPrompt(FactoryPrompts, id)[1]
        ELSE store[i]]

(***************************************************************************)
(* ContextMappingsList: loading and the two handlers.                      *)
(***************************************************************************)
\* loadData: mappingsOk and promptsOk are whether getContextMappings and
\* getContextStylePrompts returned status ok
loadData(table, mappingsOk, promptsOk) ==
    /\ mappings' = IF mappingsOk THEN table ELSE mappings
    /\ prompts' = IF promptsOk THEN hostPrompts ELSE prompts
    /\ isLoading' = FALSE

\* the mount effect
Mount(mappingsOk, promptsOk) ==
    /\ isLoading
    /\ loadData(hostMappings, mappingsOk, promptsOk)
    /\ UNCHANGED <<hostMappings, hostPrompts, bridgeVars, uiVars, editorVars, cloudVars>>

\* the values of styleOptions: what the row's dropdown offers
styleOptions == PromptIds(prompts)

\* handleStyleChange without the reload
handleStyleChange_noReload(appId, newStyle, ok, mappingsOk, promptsOk) ==
    /\ ~isLoading
    /\ newStyle \in styleOptions
    /\ Truthy(newStyle)
    /\ IF ok
       THEN /\ hostMappings' = HostUpdate(hostMappings, appId, newStyle)
            /\ UNCHANGED <<mappings, isLoading, prompts>>
       ELSE UNCHANGED <<hostMappings, mappings, isLoading, prompts>>
    /\ UNCHANGED <<hostPrompts, bridgeVars, uiVars, editorVars, cloudVars>>

\* the dropdown's onSelect of a row; ok is whether updateContextMapping
\* returned status ok
handleStyleChange(appId, newStyle, ok, mappingsOk, promptsOk) ==
    /\ ~isLoading
    /\ newStyle \in styleOptions
    /\ Truthy(newStyle)
    /\ IF ok
       THEN /\ hostMappings' = HostUpdate(hostMappings, appId, newStyle)
            /\ loadData(hostMappings', mappingsOk, promptsOk)
       ELSE UNCHANGED <<hostMappings, mappings, isLoading, prompts>>
    /\ UNCHANGED <<hostPrompts, bridgeVars, uiVars, editorVars, cloudVars>>

\* the reset button of a row, shown when isCustomMapping; ok is whether
\* deleteContextMapping returned status ok
handleResetMapping(appId, ok, mappingsOk, promptsOk) ==
    /\ ~isLoading
    /\ isCustomMapping(appId)
    /\ IF ok
       THEN /\ hostMappings' = HostDelete(hostMappings, appId)
            /\ loadData(hostMappings', mappingsOk, promptsOk)
       ELSE UNCHANGED <<hostMappings, mappings, isLoading, prompts>>
    /\ UNCHANGED <<hostPrompts, bridgeVars, uiVars, editorVars, cloudVars>>

(***************************************************************************)
(* ContextPromptEditor (settings screen).                                  *)
(***************************************************************************)
\* String.prototype.trim on the texts of the model
trim(text) ==
    CASE text = "X " -> "X"
      [] text = " " -> ""
      [] OTHER -> text

\* what the model's user types into a field
DraftTexts == {"", "X "}

\* the prompts the model's user selects in the dropdown, and those whose
\* fields they type into
SelectIds == {"email_pro", "my_style"}
EditIds == {"email_pro"}

\* no command is awaited
NoRequest ==
    [op |-> "none", id |-> null, name |-> null, description |-> null,
     prompt |-> null]

\* const selectedPrompt = prompts.find(...)
selectedPrompt == findPrompt(editorPrompts, selectedPromptId)

isDirty ==
    /\ selectedPrompt # <<>>
    /\ \/ draftName # selectedPrompt[1].name
       \/ draftDescription # selectedPrompt[1].description
       \/ draftPrompt # selectedPrompt[1].prompt

\* The effect on [selectedPromptId, prompts], run after a render in which one
\* of the two changed: the drafts take the fields of the selected prompt.
draftEffect(changed) ==
    LET selected == findPrompt(editorPrompts', selectedPromptId')
    IN  IF changed /\ selected # <<>>
        THEN /\ draftName' = selected[1].name
             /\ draftDescription' = selected[1].description
             /\ draftPrompt' = selected[1].prompt
        ELSE UNCHANGED <<draftName, draftDescription, draftPrompt>>

\* loadPrompts, with the effect its setPrompts triggers; ok is whether
\* getContextStylePrompts returned status ok
loadPrompts(ok) ==
    /\ editorPrompts' = IF ok THEN hostPrompts' ELSE editorPrompts
    /\ selectedPromptId' =
          IF ok /\ selectedPromptId = null /\ Len(hostPrompts') > 0
          THEN hostPrompts'[1].id
          ELSE selectedPromptId
    /\ editorIsLoading' = FALSE
    /\ draftEffect(ok)

\* the mount effect
EditorMount(ok) ==
    /\ editorIsLoading
    /\ UNCHANGED hostPrompts
    /\ loadPrompts(ok)
    /\ UNCHANGED <<isSaving, request, bridgeVars, uiVars, mappingVars, cloudVars>>

\* the dropdown's onSelect
setSelectedPromptId(id) ==
    /\ ~editorIsLoading
    /\ id \in PromptIds(editorPrompts)
    /\ selectedPromptId' = id
    /\ UNCHANGED <<editorPrompts, editorIsLoading>>
    /\ draftEffect(id # selectedPromptId)
    /\ UNCHANGED <<hostPrompts, isSaving, request, bridgeVars, uiVars, mappingVars,
                   cloudVars>>

\* the three inputs, rendered when a prompt is selected
setDraftName(text) ==
    /\ ~editorIsLoading
    /\ selectedPrompt # <<>>
    /\ draftName' = text
    /\ UNCHANGED <<editorPrompts, editorIsLoading, selectedPromptId,
                   draftDescription, draftPrompt, isSaving, request,
                   hostPrompts, bridgeVars, uiVars, mappingVars, cloudVars>>

setDraftDescription(text) ==
    /\ ~editorIsLoading
    /\ selectedPrompt # <<>>
    /\ draftDescription' = text
    /\ UNCHANGED <<editorPrompts, editorIsLoading, selectedPromptId,
                   draftName, draftPrompt, isSaving, request,
                   hostPrompts, bridgeVars, uiVars, mappingVars, cloudVars>>

setDraftPrompt(text) ==
    /\ ~editorIsLoading
    /\ selectedPrompt # <<>>
    /\ draftPrompt' = text
    /\ UNCHANGED <<editorPrompts, editorIsLoading, selectedPromptId,
                   draftName, draftDescription, isSaving, request,
                   hostPrompts, bridgeVars, uiVars, mappingVars, cloudVars>>

\* x.trim() || null
trimOrNull(text) == IF Truthy(trim(text)) THEN trim(text) ELSE null

\* a Save button that is not disabled while saving
handleSave_whileSaving ==
    /\ ~editorIsLoading
    /\ selectedPrompt # <<>>
    /\ isDirty
    /\ selectedPromptId # null
    /\ isSaving' = TRUE
    /\ request' = [op |-> "update", id |-> selectedPromptId,
                   name |-> trimOrNull(draftName),
                   description |-> trimOrNull(draftDescription),
                   prompt |-> trimOrNull(draftPrompt)]
    /\ UNCHANGED <<editorPrompts, editorIsLoading, selectedPromptId, draftName,
                   draftDescription, draftPrompt, hostPrompts, bridgeVars, uiVars,
                   mappingVars, cloudVars>>

\* the Save button (disabled unless dirty, and while saving), up to the await
\* of updateContextStylePrompt
handleSave ==
    /\ ~editorIsLoading
    /\ selectedPrompt # <<>>
    /\ isDirty /\ ~isSaving
    /\ selectedPromptId # null
    /\ isSaving' = TRUE
    /\ request' = [op |-> "update", id |-> selectedPromptId,
                   name |-> trimOrNull(draftName),
                   description |-> trimOrNull(draftDescription),
                   prompt |-> trimOrNull(draftPrompt)]
    /\ UNCHANGED <<editorPrompts, editorIsLoading, selectedPromptId, draftName,
                   draftDescription, draftPrompt, hostPrompts, bridgeVars, uiVars,
                   mappingVars, cloudVars>>

\* a Reset button that resets the first prompt of the list
handleReset_firstPrompt ==
    /\ ~editorIsLoading
    /\ selectedPrompt # <<>>
    /\ selectedPrompt[1].is_builtin /\ ~isSaving
    /\ selectedPromptId # null
    /\ isSaving' = TRUE
    /\ request' = [NoRequest EXCEPT !.op = "reset", !.id = editorPrompts[1].id]
    /\ UNCHANGED <<editorPrompts, editorIsLoading, selectedPromptId, draftName,
                   draftDescription, draftPrompt, hostPrompts, bridgeVars, uiVars,
                   mappingVars, cloudVars>>

\* the Reset button (rendered for a builtin prompt, disabled while saving),
\* up to the await of resetContextStylePrompt
handleReset ==
    /\ ~editorIsLoading
    /\ selectedPrompt # <<>>
    /\ selectedPrompt[1].is_builtin /\ ~isSaving
    /\ selectedPromptId # null
    /\ isSaving' = TRUE
    /\ request' = [NoRequest EXCEPT !.op = "reset", !.id = selectedPromptId]
    /\ UNCHANGED <<editorPrompts, editorIsLoading, selectedPromptId, draftName,
                   draftDescription, draftPrompt, hostPrompts, bridgeVars, uiVars,
                   mappingVars, cloudVars>>

\* What the desktop app does with a command on the style store, from the
\* specification: persisted is whether the write reached the disk; a command
\* that is not valid, or whose write fails, returns an error payload and
\* leaves the store as it was.
CommandValid(store, req) ==
    IF req.op = "reset" THEN HostResetPromptValid(store, req.id)
    ELSE HostUpdatePromptValid(store, req.id)

CommandStore(store, req) ==
    IF req.op = "reset" THEN HostResetPrompt(store, req.id)
    ELSE HostUpdatePrompt(store, req.id, req.name, req.description, req.prompt)

\* The awaited command returns and handleSave / handleReset runs to its end:
\* on status ok it reloads, and in every case isSaving goes back to false.
\* persisted as above; loadOk is whether the reload's getContextStylePrompts
\* returned status ok.
RequestReturns(persisted, loadOk) ==
    /\ request.op # "none"
    /\ IF CommandValid(hostPrompts, request) /\ persisted
       THEN /\ hostPrompts' = CommandStore(hostPrompts, request)
            /\ loadPrompts(loadOk)
       ELSE UNCHANGED <<hostPrompts, editorPrompts, editorIsLoading,
                        selectedPromptId, draftName, draftDescription,
                        draftPrompt>>
    /\ isSaving' = FALSE
    /\ request' = NoRequest
    /\ UNCHANGED <<bridgeVars, uiVars, mappingVars, cloudVars>>

\* resetContextStylePrompt called over the command surface by a caller other
\* than the editor, from the specification
resetContextStylePrompt(id, persisted) ==
    /\ hostPrompts' =
          IF HostResetPromptValid(hostPrompts, id) /\ persisted
          THEN HostResetPrompt(hostPrompts, id)
          ELSE hostPrompts
    /\ UNCHANGED <<bridgeVars, uiVars, mappingVars, editorVars, cloudVars>>

(***************************************************************************)
(* CloudSTTSettings with its ApiKeyInput and CloudModelSelector.           *)
(***************************************************************************)
\* The provider registry of the desktop app, from the specification: a
\* read-only catalog.
Catalog ==
    << [id |-> "gemini", default_model |-> "gemini-flash",
        models |-> << [id |-> "gemini-flash", name |-> "Gemini Flash"],
                      [id |-> "gemini-pro", name |-> "Gemini Pro"] >>],
       [id |-> "openai", default_model |-> "whisper-1",
        models |-> << [id |-> "whisper-1", name |-> "Whisper"] >>] >>

ProviderIds == {Catalog[i].id : i \in 1..Len(Catalog)}

\* the config state before getCloudSttConfig has answered
NoConfig == [unloaded |-> TRUE]

\* A map entry that is absent reads as undefined; for a key or a model id
\* the code only ever tests such a value for truthiness, so the model keeps
\* the empty string for it.
NoEntry == ""

\* what the model's user types into the key field
KeyTexts == {"", "k1", "k2"}

\* how a command of the desktop app can end: a success payload, an error
\* payload, or the call itself rejecting
Outcomes == {"ok", "error", "throw"}

\* the same for a desktop app whose writes do not fail
SaveOutcomes == {"ok", "throw"}

\* the model ids the selector can offer
ModelIds ==
    UNION {{Catalog[i].models[j].id : j \in 1..Len(Catalog[i].models)} :
             i \in 1..Len(Catalog)}

\* how testCloudSttConnection can end
TestOutcomes == {"ok_true", "ok_false", "error", "throw"}

\* no connection test is awaited
NoTest == [provider |-> null, key |-> null]

\* providers.find on a list of providers
findProvider(list, id) ==
    LET I == {i \in 1..Len(list) : list[i].id = id}
    IN  IF I = {} THEN <<>> ELSE <<list[FirstIndex(I)]>>

\* const selectedProvider = providers.find(...), for a loaded config cfg
selectedProviderOf(list, cfg) ==
    IF cfg = NoConfig THEN <<>> ELSE findProvider(list, cfg.active_provider)

selectedProvider == selectedProviderOf(providers, config)

\* the key field and the model selector are rendered
InputShown == ~cloudIsLoading /\ selectedProvider # <<>>

\* the value prop of ApiKeyInput: config.api_keys[selectedProvider.id] || ""
valueOf(list, cfg) ==
    LET sel == selectedProviderOf(list, cfg)
    IN  IF sel = <<>> THEN ""
        ELSE IF Truthy(cfg.api_keys[sel[1].id]) THEN cfg.api_keys[sel[1].id]
        ELSE ""

value == valueOf(providers, config)

\* ApiKeyInput after a render of CloudSTTSettings in which the screen's state
\* changed: mounted with localValue = value when it appears, and the effect
\* on [value] when value changed; result is the testResult the handler set.
inputEffect(result) ==
    LET shown == ~cloudIsLoading' /\ selectedProviderOf(providers', config') # <<>>
        newValue == valueOf(providers', config')
    IN  IF shown /\ (~InputShown \/ newValue # value)
        THEN /\ localValue' = newValue
             /\ testResult' = null
        ELSE /\ localValue' = localValue
             /\ testResult' = result

\* loadData and the mount effect: providersOk and configOk are whether
\* getCloudSttProviders and getCloudSttConfig returned status ok
CloudMount(providersOk, configOk) ==
    /\ cloudIsLoading
    /\ providers' = IF providersOk THEN Catalog ELSE providers
    /\ config' = IF configOk THEN hostConfig ELSE config
    /\ cloudIsLoading' = FALSE
    /\ inputEffect(testResult)
    /\ UNCHANGED <<hostConfig, testIsLoading, testRequest, hostPrompts,
                   bridgeVars, uiVars, mappingVars, editorVars>>

\* the screen is past its loading placeholder
Rendered == ~cloudIsLoading /\ config # NoConfig

\* onConfigChange?.() at the end of a handler's try block, reached unless the
\* command threw: the settings screen passes no such prop; the onboarding
\* passes handleCloudConfigChange, which runs up to its await of
\* getCloudSttConfig
onConfigChange(outcome) ==
    /\ configFetch' = IF onboardingMode = "cloud" /\ outcome # "throw"
                      THEN TRUE
                      ELSE configFetch
    /\ UNCHANGED <<onboardingMode, cloudConfigured, modelSelected>>

\* handleProviderSelect: the command is awaited and its result is not looked
\* at; setConfig runs unless the command threw
handleProviderSelect(providerId, outcome) ==
    /\ hostConfig' = IF outcome = "ok"
                     THEN [hostConfig EXCEPT !.active_provider = providerId]
                     ELSE hostConfig
    /\ config' = IF outcome # "throw" /\ config # NoConfig
                 THEN [config EXCEPT !.active_provider = providerId]
                 ELSE config

\* a click on a provider card
SelectProvider(providerId, outcome) ==
    /\ Rendered
    /\ findProvider(providers, providerId) # <<>>
    /\ handleProviderSelect(providerId, outcome)
    /\ onConfigChange(outcome)
    /\ UNCHANGED <<providers, cloudIsLoading>>
    /\ inputEffect(testResult)
    /\ UNCHANGED <<testIsLoading, testRequest, hostPrompts, bridgeVars,
                   otherUiVars, mappingVars, editorVars>>

\* handleApiKeyChange building the new api_keys without spreading the old
handleApiKeyChange_noSpread(providerId, apiKey, outcome) ==
    /\ hostConfig' = IF outcome = "ok"
                     THEN [hostConfig EXCEPT !.api_keys[providerId] = apiKey]
                     ELSE hostConfig
    /\ config' = IF outcome # "throw" /\ config # NoConfig
                 THEN [config EXCEPT !.api_keys =
                         [q \in ProviderIds |->
                            IF q = providerId THEN apiKey ELSE NoEntry]]
                 ELSE config

\* handleApiKeyChange: as handleProviderSelect, keyed by the provider
handleApiKeyChange(providerId, apiKey, outcome) ==
    /\ hostConfig' = IF outcome = "ok"
                     THEN [hostConfig EXCEPT !.api_keys[providerId] = apiKey]
                     ELSE hostConfig
    /\ config' = IF outcome # "throw" /\ config # NoConfig
                 THEN [config EXCEPT !.api_keys[providerId] = apiKey]
                 ELSE config

handleModelChange(providerId, modelId, outcome) ==
    /\ hostConfig' = IF outcome = "ok"
                     THEN [hostConfig EXCEPT !.selected_models[providerId] = modelId]
                     ELSE hostConfig
    /\ config' = IF outcome # "throw" /\ config # NoConfig
                 THEN [config EXCEPT !.selected_models[providerId] = modelId]
                 ELSE config

\* the selectedModel prop: config.selected_models[id] || default_model
selectedModel ==
    IF Truthy(config.selected_models[selectedProvider[1].id])
    THEN config.selected_models[selectedProvider[1].id]
    ELSE selectedProvider[1].default_model

\* CloudModelSelector: the dropdown's selectedValue and its option values
selectedValue ==
    IF Truthy(selectedModel) THEN selectedModel
    ELSE selectedProvider[1].default_model

modelOptions ==
    {selectedProvider[1].models[i].id : i \in 1..Len(selectedProvider[1].models)}

\* the model dropdown's onSelect, disabled while the provider has no key
SelectModel(modelId, outcome) ==
    /\ InputShown
    /\ Truthy(trim(config.api_keys[selectedProvider[1].id]))
    /\ modelId \in modelOptions
    /\ handleModelChange(selectedProvider[1].id, modelId, outcome)
    /\ onConfigChange(outcome)
    /\ UNCHANGED <<providers, cloudIsLoading>>
    /\ inputEffect(testResult)
    /\ UNCHANGED <<testIsLoading, testRequest, hostPrompts, bridgeVars,
                   otherUiVars, mappingVars, editorVars>>

\* the key field's onChange
setLocalValue(text) ==
    /\ InputShown
    /\ localValue' = text
    /\ testResult' = null
    /\ UNCHANGED <<hostConfig, providers, config, cloudIsLoading,
                   testIsLoading, testRequest, hostPrompts, bridgeVars, uiVars,
                   mappingVars, editorVars>>

\* the key field's onBlur
handleBlur(outcome) ==
    /\ InputShown
    /\ localValue # value
    /\ handleApiKeyChange(selectedProvider[1].id, localValue, outcome)
    /\ onConfigChange(outcome)
    /\ UNCHANGED <<providers, cloudIsLoading>>
    /\ inputEffect(null)
    /\ UNCHANGED <<testIsLoading, testRequest, hostPrompts, bridgeVars,
                   otherUiVars, mappingVars, editorVars>>

\* handleTestConnection accepting every ok result
handleTestConnection_statusOnly(apiKey, result) ==
    IF ~Truthy(apiKey) THEN "false"
    ELSE IF result = "throw" THEN "false"
    ELSE IF result \in {"ok_true", "ok_false"} THEN "true"
    ELSE "false"

\* What handleTestConnection returns for the key it read from config and
\* the way testCloudSttConnection ended ("true", "false", or "throw" for an
\* exception leaving the function).
handleTestConnection(apiKey, result) ==
    IF ~Truthy(apiKey) THEN "false"
    ELSE IF result = "throw" THEN "false"
    ELSE IF result = "ok_true" THEN "true"
    ELSE "false"

\* the try / catch of handleTest around await onTest()
setTestResult(returned) == IF returned = "throw" THEN "false" ELSE returned

\* The Test button, up to the await of the connection test. onChange saves a
\* key that differs from the stored one; onTest is the closure of the render
\* the click happened in, so handleTestConnection reads the key from the
\* config of before the click.
handleTest(outcome) ==
    /\ InputShown
    /\ ~testIsLoading
    /\ Truthy(trim(localValue))
    /\ IF localValue # value
       THEN /\ handleApiKeyChange(selectedProvider[1].id, localValue, outcome)
            /\ onConfigChange(outcome)
       ELSE UNCHANGED <<hostConfig, config, onboardVars>>
    /\ UNCHANGED <<providers, cloudIsLoading>>
    /\ LET apiKey == config.api_keys[selectedProvider[1].id]
       IN  IF Truthy(apiKey)
           THEN /\ testRequest' = [provider |-> selectedProvider[1].id,
                                   key |-> apiKey]
                /\ testIsLoading' = TRUE
                /\ inputEffect(null)
           ELSE /\ testRequest' = NoTest
                /\ testIsLoading' = FALSE
                /\ inputEffect(setTestResult(handleTestConnection(apiKey, "ok_true")))
    /\ UNCHANGED <<hostPrompts, bridgeVars, otherUiVars, mappingVars, editorVars>>

\* the awaited connection test ends and handleTest runs to its end
TestReturns(result) ==
    /\ testRequest # NoTest
    /\ testResult' = setTestResult(handleTestConnection(testRequest.key, result))
    /\ testIsLoading' = FALSE
    /\ testRequest' = NoTest
    /\ UNCHANGED <<hostConfig, providers, config, cloudIsLoading, localValue,
                   hostPrompts, bridgeVars, uiVars, mappingVars, editorVars>>

(***************************************************************************)
(* RecordingOverlay (overlay window).                                      *)
(***************************************************************************)
\* show-overlay handlers that can be suspended at once
MaxShows == 2

\* useState<DetectedContext | null>(null): no context is held
NoDetected ==
    [source |-> null, app_id |-> null, app_name |-> null,
     context_style |-> null, confidence |-> 0]

\* the payloads of context-detected
DetectedContexts ==
    { [source |-> "browser", app_id |-> "gmail", app_name |-> "Gmail",
       context_style |-> "email_pro", confidence |-> 1],
      [source |-> "native", app_id |-> "unknown", app_name |-> "Unknown",
       context_style |-> "correction", confidence |-> 0] }

\* the payloads of show-overlay
OverlayStates == {"recording", "transcribing"}

\* the context indicator of the render
contextIndicator ==
    /\ state = "transcribing"
    /\ detectedContext # NoDetected
    /\ detectedContext.app_id # "unknown"

\* the desktop app emits show-overlay: the listener runs up to its await
\* of syncLanguageFromSettings
showOverlay(payload) ==
    /\ Len(shows) < MaxShows
    /\ shows' = Append(shows, payload)
    /\ lifecycle' = "show-overlay"
    /\ UNCHANGED <<isVisible, state, detectedContext>>
    /\ UNCHANGED <<bridgeVars, mappingVars, hostPrompts, editorVars, cloudVars,
                   onboardVars, transcriptionVars>>

\* syncLanguageFromSettings settles for the i-th suspended listener, which
\* runs to its end; synced is whether it resolved
showResumes(i, synced) ==
    /\ i \in 1..Len(shows)
    /\ shows' = [j \in 1..(Len(shows) - 1) |->
                    IF j < i THEN shows[j] ELSE shows[j + 1]]
    /\ state' = IF synced THEN shows[i] ELSE state
    /\ isVisible' = IF synced THEN TRUE ELSE isVisible
    /\ UNCHANGED <<lifecycle, detectedContext>>
    /\ UNCHANGED <<bridgeVars, mappingVars, hostPrompts, editorVars, cloudVars,
                   onboardVars, transcriptionVars>>

\* the desktop app emits hide-overlay, and the listener runs
hideOverlay ==
    /\ isVisible' = FALSE
    /\ detectedContext' = NoDetected
    /\ lifecycle' = "hide-overlay"
    /\ UNCHANGED <<state, shows>>
    /\ UNCHANGED <<bridgeVars, mappingVars, hostPrompts, editorVars, cloudVars,
                   onboardVars, transcriptionVars>>

\* the desktop app emits context-detected, and the listener runs
contextDetected(payload) ==
    /\ detectedContext' = payload
    /\ UNCHANGED <<lifecycle, isVisible, state, shows>>
    /\ UNCHANGED <<bridgeVars, mappingVars, hostPrompts, editorVars, cloudVars,
                   onboardVars, transcriptionVars>>

(***************************************************************************)
(* Onboarding (first-run window): the mode cards and the cloud setup view, *)
(* which embeds CloudSTTSettings with onConfigChange.                      *)
(***************************************************************************)
OnboardingModes == {"select", "offline", "cloud"}

\* Object.values(api_keys).some((key) => key && key.trim() !== "")
hasApiKey(cfg) ==
    \E q \in ProviderIds :
        Truthy(cfg.api_keys[q]) /\ trim(cfg.api_keys[q]) # ""

\* the cloud setup view is on screen
CloudSetup == onboardingMode = "cloud" /\ ~modelSelected

\* The mode cards and the Back buttons. Entering the cloud view mounts a new
\* CloudSTTSettings, leaving it unmounts the one that was there.
setMode(m) ==
    /\ ~modelSelected
    /\ m # onboardingMode
    /\ onboardingMode = "select" \/ m = "select"
    /\ onboardingMode' = m
    /\ providers' = <<>>
    /\ config' = NoConfig
    /\ cloudIsLoading' = TRUE
    /\ localValue' = ""
    /\ testIsLoading' = FALSE
    /\ testResult' = null
    /\ testRequest' = NoTest
    /\ UNCHANGED <<hostConfig, cloudConfigured, configFetch, modelSelected,
                   hostPrompts, bridgeVars, otherUiVars, mappingVars,
                   editorVars>>

\* handleCloudConfigChange after its await: outcome is how getCloudSttConfig
\* ended
handleCloudConfigChange(outcome) ==
    /\ configFetch
    /\ configFetch' = FALSE
    /\ cloudConfigured' =
          IF outcome = "ok"
          THEN hasApiKey(hostConfig) /\ Truthy(hostConfig.active_provider)
          ELSE cloudConfigured
    /\ UNCHANGED <<onboardingMode, modelSelected, cloudVars, hostPrompts,
                   bridgeVars, otherUiVars, mappingVars, editorVars>>

\* what setCloudSttEnabled does to the persisted config, from the
\* specification
HostSetEnabled(cfg, enabled) == [cfg EXCEPT !.enabled = enabled]

\* the Continue button (disabled unless cloudConfigured): outcome is how
\* setCloudSttEnabled(true) ended; its result is not looked at
handleCloudSetupComplete(outcome) ==
    /\ CloudSetup
    /\ cloudConfigured
    /\ hostConfig' = IF outcome = "ok"
                     THEN HostSetEnabled(hostConfig, TRUE)
                     ELSE hostConfig
    /\ modelSelected' = (outcome # "throw")
    /\ UNCHANGED <<onboardingMode, cloudConfigured, configFetch, providers,
                   config, cloudIsLoading, localValue, testIsLoading,
                   testResult, testRequest, hostPrompts, bridgeVars,
                   otherUiVars, mappingVars, editorVars>>

(***************************************************************************)
(* TranscriptionSettings (settings screen): the mode selector, with        *)
(* CloudSTTSettings below it while the mode is cloud.                      *)
(***************************************************************************)
TranscriptionModes == {"offline", "cloud"}

\* the CloudSTTSettings below the selector is on screen
ModeCloud == ~modeIsLoading /\ mode = "cloud"

\* loadConfig and the mount effect: outcome is how getCloudSttConfig ended
loadConfig(outcome) ==
    /\ modeIsLoading
    /\ mode' = IF outcome = "ok"
               THEN (IF hostConfig.enabled THEN "cloud" ELSE "offline")
               ELSE mode
    /\ modeIsLoading' = FALSE
    /\ UNCHANGED <<cloudVars, onboardVars, overlayVars, hostPrompts,
                   bridgeVars, mappingVars, editorVars>>

\* handleModeChange: setMode first, then the awaited setCloudSttEnabled,
\* whose result is not looked at. A change of mode mounts or unmounts the
\* CloudSTTSettings below the selector.
handleModeChange(newMode, outcome) ==
    /\ ~modeIsLoading
    /\ mode' = newMode
    /\ hostConfig' = IF outcome = "ok"
                     THEN HostSetEnabled(hostConfig, newMode = "cloud")
                     ELSE hostConfig
    /\ IF newMode # mode
       THEN /\ providers' = <<>>
            /\ config' = NoConfig
            /\ cloudIsLoading' = TRUE
            /\ localValue' = ""
            /\ testIsLoading' = FALSE
            /\ testResult' = null
            /\ testRequest' = NoTest
       ELSE UNCHANGED <<providers, config, cloudIsLoading, localValue,
                        testIsLoading, testResult, testRequest>>
    /\ UNCHANGED <<modeIsLoading, onboardVars, overlayVars, hostPrompts,
                   bridgeVars, mappingVars, editorVars>>

(***************************************************************************)
(* Specifications.                                                         *)
(***************************************************************************)
\* the mapping tables the desktop app may have persisted before the screen
\* opens
InitialTables ==
    { <<>>,
      << [app_id |-> "custom_app", context_style |-> "notes"] >>,
      << [app_id |-> "gmail", context_style |-> "chat"] >>,
      << [app_id |-> "slack_web", context_style |-> "old_style"] >> }

\* the style store the desktop app has persisted
InitialPrompts == FactoryPrompts \o << CustomPrompt >>

\* the cloud configs the desktop app may have persisted before the screen
\* opens: a fresh one, one the user has set up, and one whose model
\* selection names a model the catalog no longer lists
FreshConfig ==
    [enabled |-> FALSE, active_provider |-> null,
     api_keys |-> [q \in ProviderIds |-> NoEntry],
     selected_models |-> [q \in ProviderIds |-> NoEntry]]

InitialConfigs ==
    { FreshConfig,
      [FreshConfig EXCEPT !.enabled = TRUE, !.active_provider = "gemini",
                          !.api_keys["gemini"] = "k1",
                          !.selected_models["gemini"] = "gemini-pro"],
      [FreshConfig EXCEPT !.enabled = TRUE, !.active_provider = "gemini",
                          !.api_keys["gemini"] = "k1",
                          !.selected_models["gemini"] = "gemini-1.0"] }

\* After the background script has run to its end (connect() called once),
\* and before the settings screen's mount effect.
Init ==
    /\ ws = 1
    /\ reconnectInterval = NULL
    /\ readyState = [s \in Sockets |-> IF s = 1 THEN "CONNECTING" ELSE "CLOSED"]
    /\ timers = {}
    /\ pending = <<>>
    /\ chan = [s \in Sockets |-> <<>>]
    /\ lost = {}
    /\ activeTab \in Tabs
    /\ tabUrl \in [Tabs -> TabUrls \cup {NoUrl}]
    /\ serverUp \in BOOLEAN
    /\ serverCtx = NoContext
    /\ probes = [p \in ProbeIds |-> "CLOSED"]
    /\ hostMappings \in InitialTables
    /\ mappings = <<>>
    /\ isLoading = TRUE
    /\ prompts = <<>>
    /\ hostPrompts = InitialPrompts
    /\ editorPrompts = <<>>
    /\ editorIsLoading = TRUE
    /\ selectedPromptId = null
    /\ draftName = ""
    /\ draftDescription = ""
    /\ draftPrompt = ""
    /\ isSaving = FALSE
    /\ request = NoRequest
    /\ hostConfig \in InitialConfigs
    /\ providers = <<>>
    /\ config = NoConfig
    /\ cloudIsLoading = TRUE
    /\ localValue = ""
    /\ testIsLoading = FALSE
    /\ testResult = null
    /\ testRequest = NoTest
    /\ lifecycle = "none"
    /\ isVisible = FALSE
    /\ state = "recording"
    /\ detectedContext = NoDetected
    /\ shows = <<>>
    /\ onboardingMode = "select"
    /\ cloudConfigured = FALSE
    /\ configFetch = FALSE
    /\ modelSelected = FALSE
    /\ mode = "offline"
    /\ modeIsLoading = TRUE

\* the bridge, the user leaving the tabs alone
ConnInit ==
    /\ Init
    /\ activeTab = 1
    /\ tabUrl[2] = NoUrl
    /\ tabUrl[1] \in TabUrls \cup {NoUrl}
    /\ hostMappings = <<>>
    /\ hostConfig = FreshConfig

ConnNext ==
    \/ ReconnectTick
    \/ \E s \in Sockets : SocketOpen(s)
    \/ \E s \in Sockets : SocketError(s)
    \/ \E s \in Sockets : SocketClose(s)
    \/ \E s \in Sockets : ConnectionDrop(s)
    \/ \E s \in Sockets : ServerReceive(s)
    \/ QueryAnswer
    \/ QueryResume
    \/ ServerStart
    \/ ServerStop
    \/ \E p \in ProbeIds : checkConnection(p)
    \/ \E p \in ProbeIds : ProbeOpen(p)
    \/ \E p \in ProbeIds : ProbeError(p)
    \/ \E p \in ProbeIds : ProbeClosed(p)

ConnSpec == ConnInit /\ [][ConnNext]_vars

\* The same under the scheduling of the browser's event loop: a timer that
\* runs fires, a socket event that is due is delivered, a query is answered
\* and its caller resumed, a frame sent is read. The desktop app starting or
\* stopping, a connection breaking and the popup are left to the environment.
ConnFairness ==
    /\ WF_vars(ReconnectTick)
    /\ \A s \in Sockets : WF_vars(SocketOpen(s))
    /\ \A s \in Sockets : WF_vars(SocketError(s))
    /\ \A s \in Sockets : WF_vars(SocketClose(s))
    /\ \A s \in Sockets : WF_vars(ServerReceive(s))
    /\ WF_vars(QueryAnswer)
    /\ WF_vars(QueryResume)

ConnFairSpec == ConnInit /\ [][ConnNext]_vars /\ ConnFairness

\* the bridge with the user switching tabs and navigating
TabNext ==
    \/ \E t \in Tabs : TabActivated(t)
    \/ \E t \in Tabs, u \in NavUrls : TabNavigated(t, u)
    \/ \E t \in Tabs : TabComplete(t)

BridgeInit ==
    /\ Init
    /\ tabUrl[1] \in NavUrls
    /\ tabUrl[2] \in NavUrls \cup {NoUrl}
    /\ hostMappings = <<>>
    /\ hostConfig = FreshConfig

\* the bridge with the desktop app running and the connection holding, the
\* user switching tabs and navigating
PushInit ==
    /\ BridgeInit
    /\ serverUp

PushNext ==
    \/ TabNext
    \/ \E s \in Sockets : SocketOpen(s)
    \/ \E s \in Sockets : ServerReceive(s)
    \/ QueryAnswer
    \/ QueryResume

PushSpec == PushInit /\ [][PushNext]_vars

\* the bridge with the desktop app running, answering every connection
\* attempt within the reconnect interval, and connections breaking; the user
\* switches between a tab on a page of the domain table and a tab on another
\* page
ResyncInit ==
    /\ Init
    /\ serverUp
    /\ tabUrl = [t \in Tabs |-> IF t = 1 THEN "https://mail.google.com/mail/u/0/"
                                         ELSE "https://example.com/docs"]
    /\ hostMappings = <<>>
    /\ hostConfig = FreshConfig

ResyncNext ==
    \/ \E t \in Tabs : TabActivated(t)
    \/ ReconnectTickAnswered
    \/ \E s \in Sockets : SocketOpen(s)
    \/ \E s \in Sockets : SocketClose(s)
    \/ \E s \in Sockets : ConnectionDrop(s)
    \/ \E s \in Sockets : ServerReceive(s)
    \/ QueryAnswer
    \/ QueryResume

ResyncSpec == ResyncInit /\ [][ResyncNext]_vars

\* the bridge left alone: no tab event, the desktop app not running
BridgeIdle ==
    /\ activeTab = 1
    /\ tabUrl = [t \in Tabs |-> NoUrl]
    /\ serverUp = FALSE

MappingsInit ==
    /\ Init
    /\ BridgeIdle
    /\ hostConfig = FreshConfig

MappingsNext ==
    \/ \E mappingsOk \in BOOLEAN, promptsOk \in BOOLEAN :
            Mount(mappingsOk, promptsOk)
    \/ \E appId \in UiApps, newStyle \in UiStyles, ok \in BOOLEAN,
          mappingsOk \in BOOLEAN, promptsOk \in BOOLEAN :
            handleStyleChange(appId, newStyle, ok, mappingsOk, promptsOk)
    \/ \E appId \in UiApps, ok \in BOOLEAN, mappingsOk \in BOOLEAN,
          promptsOk \in BOOLEAN :
            handleResetMapping(appId, ok, mappingsOk, promptsOk)

MappingsSpec == MappingsInit /\ [][MappingsNext]_vars

\* the prompt editor, with another caller of the reset command; the user
\* leaves the form alone while a command is awaited, and types into the
\* fields of the prompts of EditIds only
PromptInit ==
    /\ Init
    /\ BridgeIdle
    /\ hostMappings = <<>>
    /\ hostConfig = FreshConfig

Typing == ~isSaving /\ selectedPromptId \in EditIds

PromptNext ==
    \/ \E ok \in BOOLEAN : EditorMount(ok)
    \/ ~isSaving /\ \E id \in SelectIds : setSelectedPromptId(id)
    \/ Typing /\ \E text \in DraftTexts : setDraftName(text)
    \/ Typing /\ \E text \in DraftTexts : setDraftDescription(text)
    \/ Typing /\ \E text \in DraftTexts : setDraftPrompt(text)
    \/ handleSave
    \/ handleReset
    \/ \E persisted \in BOOLEAN, loadOk \in BOOLEAN :
            RequestReturns(persisted, loadOk)
    \/ ~isSaving /\ \E id \in SelectIds, persisted \in BOOLEAN :
            resetContextStylePrompt(id, persisted)

PromptSpec == PromptInit /\ [][PromptNext]_vars

\* the same with the desktop app answering every command it is sent
PromptFairSpec ==
    /\ PromptInit /\ [][PromptNext]_vars
    /\ WF_vars(\E persisted \in BOOLEAN, loadOk \in BOOLEAN :
                  RequestReturns(persisted, loadOk))

\* the cloud settings screen without its Test button
CloudInit ==
    /\ Init
    /\ BridgeIdle
    /\ hostMappings = <<>>

CloudNext ==
    \/ \E providersOk \in BOOLEAN, configOk \in BOOLEAN :
            CloudMount(providersOk, configOk)
    \/ \E providerId \in ProviderIds, outcome \in Outcomes :
            SelectProvider(providerId, outcome)
    \/ \E modelId \in ModelIds, outcome \in Outcomes :
            SelectModel(modelId, outcome)
    \/ \E text \in KeyTexts : setLocalValue(text)
    \/ \E outcome \in Outcomes : handleBlur(outcome)

CloudSpec == CloudInit /\ [][CloudNext]_vars

\* the same screen opened on a desktop app that has no cloud provider
\* configured yet
FreshInit ==
    /\ CloudInit
    /\ hostConfig = FreshConfig

FreshSpec == FreshInit /\ [][CloudNext]_vars

\* the cloud settings screen with its Test button, the desktop app's writes
\* not failing
TestNext ==
    \/ \E providersOk \in BOOLEAN, configOk \in BOOLEAN :
            CloudMount(providersOk, configOk)
    \/ \E providerId \in ProviderIds, outcome \in SaveOutcomes :
            SelectProvider(providerId, outcome)
    \/ \E modelId \in ModelIds, outcome \in SaveOutcomes :
            SelectModel(modelId, outcome)
    \/ \E text \in KeyTexts : setLocalValue(text)
    \/ \E outcome \in SaveOutcomes : handleBlur(outcome)
    \/ \E outcome \in SaveOutcomes : handleTest(outcome)
    \/ \E result \in TestOutcomes : TestReturns(result)

TestSpec == CloudInit /\ [][TestNext]_vars

\* the overlay window, the desktop app emitting its events in any order
OverlayInit ==
    /\ Init
    /\ BridgeIdle
    /\ hostMappings = <<>>
    /\ hostConfig = FreshConfig

OverlayNext ==
    \/ \E payload \in OverlayStates : showOverlay(payload)
    \/ \E i \in 1..MaxShows, synced \in BOOLEAN : showResumes(i, synced)
    \/ hideOverlay
    \/ \E payload \in DetectedContexts : contextDetected(payload)

OverlaySpec == OverlayInit /\ [][OverlayNext]_vars

\* the first run: the onboarding window on a desktop app that has no cloud
\* provider configured, its writes not failing
OnboardInit ==
    /\ Init
    /\ BridgeIdle
    /\ hostMappings = <<>>
    /\ hostConfig = FreshConfig

OnboardNext ==
    \/ \E m \in OnboardingModes : setMode(m)
    \/ CloudSetup /\ \E providersOk \in BOOLEAN, configOk \in BOOLEAN :
            CloudMount(providersOk, configOk)
    \/ CloudSetup /\ \E providerId \in ProviderIds, outcome \in SaveOutcomes :
            SelectProvider(providerId, outcome)
    \/ CloudSetup /\ \E modelId \in ModelIds, outcome \in SaveOutcomes :
            SelectModel(modelId, outcome)
    \/ CloudSetup /\ \E text \in KeyTexts : setLocalValue(text)
    \/ CloudSetup /\ \E outcome \in SaveOutcomes : handleBlur(outcome)
    \/ \E outcome \in Outcomes : handleCloudConfigChange(outcome)
    \/ \E outcome \in Outcomes : handleCloudSetupComplete(outcome)

OnboardSpec == OnboardInit /\ [][OnboardNext]_vars

\* the transcription settings screen, the desktop app's writes to the key
\* and provider not failing
ModeInit ==
    /\ Init
    /\ BridgeIdle
    /\ hostMappings = <<>>

ModeNext ==
    \/ \E outcome \in Outcomes : loadConfig(outcome)
    \/ \E newMode \in TranscriptionModes, outcome \in Outcomes :
            handleModeChange(newMode, outcome)
    \/ ModeCloud /\ \E providersOk \in BOOLEAN, configOk \in BOOLEAN :
            CloudMount(providersOk, configOk)
    \/ ModeCloud /\ \E providerId \in ProviderIds, outcome \in SaveOutcomes :
            SelectProvider(providerId, outcome)
    \/ ModeCloud /\ \E text \in KeyTexts : setLocalValue(text)
    \/ ModeCloud /\ \E outcome \in SaveOutcomes : handleBlur(outcome)

ModeSpec == ModeInit /\ [][ModeNext]_vars

\* the whole program
Next ==
    \/ ConnNext \/ TabNext \/ MappingsNext \/ PromptNext \/ CloudNext
    \/ TestNext \/ OverlayNext \/ OnboardNext \/ ModeNext

Spec == Init /\ [][Next]_vars

(***************************************************************************)
(* Properties of the bridge client.                                        *)
(***************************************************************************)
\* socket s opens / closes in this step
Opens(s) == readyState[s] = "CONNECTING" /\ readyState'[s] = "OPEN"
Closes(s) == readyState[s] # "CLOSED" /\ readyState'[s] = "CLOSED"

\* the client holds an open socket in ws
Connected == ws # NULL /\ readyState[ws] = "OPEN"

\* no socket of the background script is connecting or open
NoLiveSocket == \A s \in Sockets : readyState[s] = "CLOSED"

\* some socket of the background script is open
AnyOpen == \E s \in Sockets : readyState[s] = "OPEN"

\* the frame that describes the active tab
CurrentFrame == JSONstringify(ContextOf(tabUrl[activeTab]))

\* C1: from every state in which no connection is open and the active tab
\* has a url, if from then on the server stays reachable and no connection
\* breaks, the client eventually holds an open socket in ws, and after that
\* the server's record is the context of the active tab.
C1_ReconnectLiveness ==
    []((~AnyOpen /\ tabUrl[activeTab] # NoUrl /\ [](serverUp /\ lost = {}))
         => <>(Connected /\ <>(serverCtx = CurrentFrame)))

\* the oldest suspended call resumes in this step
Resumes == pending # <<>> /\ Head(pending).answered /\ pending' = Tail(pending)

\* C2: every onopen is followed by a push on the connection that opened: when
\* the sendCurrentContext call made by the onopen of socket s resumes with a
\* tab that has a url, and s is still open, a frame describing that tab is
\* sent on s.
C2_ResyncOnConnect ==
    [][\A s \in Sockets :
          (/\ Resumes
           /\ Head(pending).origin = "onopen"
           /\ Head(pending).sock = s
           /\ Head(pending).url # NoUrl
           /\ readyState[s] = "OPEN"
           /\ s \notin lost)
          => chan'[s] = Append(chan[s],
                               JSONstringify(ContextOf(Head(pending).url)))]_vars

\* C3: every socket close leaves ws = null and a reconnect timer running,
\* the timer is stopped only by a socket opening, and whenever no socket is
\* connecting or open a reconnect timer is running.
C3_CloseSchedulesReconnect ==
    /\ [](NoLiveSocket => reconnectInterval # NULL /\ reconnectInterval \in timers)
    /\ [][(\E s \in Sockets : Closes(s))
            => (ws' = NULL /\ reconnectInterval' # NULL
                /\ reconnectInterval' \in timers')]_vars
    /\ [][(reconnectInterval # NULL /\ reconnectInterval' = NULL)
            => \E s \in Sockets : Opens(s)]_vars

\* a refused attempt has closed, nothing is connecting, the timer runs
C3_Witness ==
    /\ NoLiveSocket
    /\ ws = NULL
    /\ reconnectInterval \in timers

\* C4: at most one reconnect interval timer runs at any time, and a socket's
\* onopen leaves none running.
C4_OneReconnectTimer ==
    /\ [](Cardinality(timers) <= 1)
    /\ [][(\E s \in Sockets : Opens(s))
            => (timers' = {} /\ reconnectInterval' = NULL)]_vars

\* one socket has closed while another is open: one timer runs
C4_Witness ==
    /\ Cardinality(timers) = 1
    /\ ws = NULL
    /\ \E s \in Sockets : readyState[s] = "OPEN"

\* C5: the extension holds at most one socket to the bridge server,
\* connecting or open, counting the sockets of connect() and the sockets of
\* the popup's checkConnection.
C5_SingleConnection ==
    Cardinality({s \in Sockets : readyState[s] # "CLOSED"})
        + Cardinality({p \in ProbeIds : probes[p] # "CLOSED"}) <= 1

\* C8: every frame carries as detected_app the app id the domain table holds
\* for the frame's domain, and null when the table does not hold the domain.
C8_DetectedApp ==
    \A s \in Sockets : \A i \in 1..Len(chan[s]) :
        LET m == chan[s][i]
        IN  /\ m.domain = Hostname(m.url)
            /\ m.detected_app = IF m.domain \in DOMAIN detectAppMappings
                                THEN detectAppMappings[m.domain]
                                ELSE "null"

\* the server reads a frame of connection s in this step
Receives(s) ==
    /\ chan[s] # <<>>
    /\ chan'[s] = Tail(chan[s])
    /\ UNCHANGED <<readyState, lost, serverUp>>

\* the frames the client can build: each describes one page
Frames == {JSONstringify(ContextOf(u)) : u \in TabUrls}

\* C6: the server's record is the last frame it read, whole: reading a frame
\* replaces the record by that frame whatever the record held, the record
\* changes in no other way while the server runs, and it is never a mix of
\* the fields of two frames.
C6_MostRecentWins ==
    /\ [][\A s \in Sockets : Receives(s) => serverCtx' = Head(chan[s])]_vars
    /\ [][(serverCtx' # serverCtx /\ serverUp')
            => \E s \in Sockets : Receives(s)]_vars
    /\ [](serverCtx \in Frames \cup {NoContext})

\* the server holds the context of one page while the resync frame of a
\* later connection, describing another page, is in flight
C6_Witness ==
    /\ readyState[1] = "CLOSED"
    /\ readyState[2] = "OPEN"
    /\ serverCtx # NoContext
    /\ chan[2] # <<>>
    /\ Head(chan[2]) # serverCtx
    /\ Head(chan[2]).detected_app = "null"

\* a frame is sent on connection s in this step
Sends(s) ==
    /\ readyState[s] = "OPEN"
    /\ Len(chan'[s]) = Len(chan[s]) + 1

\* C7 as claimed: a frame is sent only by a call that a tab activation or the
\* load completion of the active tab started, and it describes the tab that
\* is the active tab when it is sent.
C7_PushTriggers ==
    [][\A s \in Sockets :
          Sends(s) =>
            /\ Resumes
            /\ Head(pending).origin \in {"onActivated", "onUpdated"}
            /\ chan'[s] = Append(chan[s], CurrentFrame)]_vars

\* C7 as amended: a frame is sent only by a call that a tab activation, the
\* load completion of the active tab or a socket's onopen started; it
\* describes the tab that was the active tab when the call's query was
\* answered; the load completion of a background tab starts no call.
C7_PushTriggersAmended ==
    /\ [][\A s \in Sockets :
            Sends(s) =>
              /\ Resumes
              /\ Head(pending).origin \in {"onActivated", "onUpdated", "onopen"}
              /\ chan'[s] = Append(chan[s],
                                   JSONstringify(ContextOf(Head(pending).url)))]_vars
    /\ [][(pending # <<>> /\ ~Head(pending).answered /\ pending'[1].answered)
            => pending'[1].url = tabUrl[activeTab]]_vars
    /\ [][Len(pending') > Len(pending) =>
            LET call == pending'[Len(pending')]
            IN  /\ call.origin = "onActivated" => activeTab' # activeTab
                /\ call.origin = "onopen" => Opens(call.sock)]_vars
    /\ [][\A t \in Tabs :
            (t # activeTab /\ TabComplete(t)) => UNCHANGED pending]_vars

\* a frame describing the active tab is in flight while the background tab
\* shows another page
C7_Witness ==
    \E s \in Sockets : \E t \in Tabs :
        /\ chan[s] # <<>>
        /\ Head(chan[s]) = CurrentFrame
        /\ t # activeTab
        /\ tabUrl[t] \notin {tabUrl[activeTab], NoUrl}

(***************************************************************************)
(* Properties of the context resolution.                                   *)
(***************************************************************************)
\* C9: an app_id that has a mapping resolves to the mapping's context_style.
C9_ResolverPrecedence ==
    \A i \in 1..Len(mappings) :
        getStyleForApp(mappings[i].app_id) = mappings[i].context_style

\* gmail is mapped to a style that is not its static default
C9_Witness ==
    \E i \in 1..Len(mappings) :
        /\ mappings[i].app_id = "gmail"
        /\ mappings[i].context_style = "chat"

\* C10: an app_id of DEFAULT_APPS that has no mapping resolves to its
\* defaultStyle; mail.google.com is detected as gmail, which without a
\* mapping resolves to email_pro.
C10_StaticDefault ==
    /\ \A i \in 1..Len(DEFAULT_APPS) :
          findMapping(mappings, DEFAULT_APPS[i].id) = <<>>
            => getStyleForApp(DEFAULT_APPS[i].id) = DEFAULT_APPS[i].defaultStyle
    /\ detectApp(Hostname("https://mail.google.com/mail/u/0/")) = "gmail"
    /\ findMapping(mappings, "gmail") = <<>>
         => getStyleForApp(detectApp("mail.google.com")) = "email_pro"

\* the list is loaded and holds a mapping, but none for gmail
C10_Witness ==
    /\ ~isLoading
    /\ mappings # <<>>
    /\ findMapping(mappings, "gmail") = <<>>

\* the app ids the resolver is asked about: the rows the model's user acts
\* on, an app the extension detects that DEFAULT_APPS does not list, and an
\* app that only a persisted mapping names
ResolvedApps == UiApps \cup {detectApp("teams.microsoft.com"), "custom_app"}

\* C11: an app_id that has no mapping and is not in DEFAULT_APPS resolves to
\* "correction".
C11_ResolverFallback ==
    \A appId \in ResolvedApps :
        (findMapping(mappings, appId) = <<>> /\ findDefaultApp(appId) = <<>>)
          => getStyleForApp(appId) = "correction"

\* the list is loaded with a mapping for another app, and the app the
\* extension detects on teams.microsoft.com has neither mapping nor default
C11_Witness ==
    /\ ~isLoading
    /\ mappings # <<>>
    /\ findMapping(mappings, "teams_web") = <<>>
    /\ findDefaultApp("teams_web") = <<>>

\* C12: once the list and the prompts are loaded, every app_id resolves to
\* the id of a loaded prompt or to "correction"; a mapping that names a style
\* id no prompt has resolves to "correction".
C12_DanglingSafety ==
    (~isLoading /\ prompts # <<>>) =>
        \A appId \in ResolvedApps :
            /\ getStyleForApp(appId) \in PromptIds(prompts) \cup {"correction"}
            /\ \A i \in 1..Len(mappings) :
                  (mappings[i].app_id = appId
                   /\ mappings[i].context_style \notin PromptIds(prompts))
                    => getStyleForApp(appId) = "correction"

\* defaultApp.defaultStyle of an app_id of DEFAULT_APPS
staticDefault(appId) == findDefaultApp(appId)[1].defaultStyle

\* C13: isCustomMapping(app_id) is true iff app_id resolves to a style other
\* than its static default; it is false for every app_id the loaded list
\* holds no mapping for, which is what a successful deleteContextMapping and
\* the reload leave; and it is false for the row's app_id after the row's
\* reset button got status ok from deleteContextMapping and reloaded.
C13_CustomDetection ==
    /\ [](~isLoading =>
            \A appId \in ResolvedApps :
              /\ findDefaultApp(appId) # <<>> =>
                    (isCustomMapping(appId)
                       <=> getStyleForApp(appId) # staticDefault(appId))
              /\ findMapping(mappings, appId) = <<>> => ~isCustomMapping(appId))
    /\ [][\A appId \in UiApps, mappingsOk \in BOOLEAN, promptsOk \in BOOLEAN :
            handleResetMapping(appId, TRUE, mappingsOk, promptsOk)
              => ~isCustomMapping(appId)']_vars

\* the mappings of a table for one app_id
MappingsFor(table, appId) == {i \in 1..Len(table) : table[i].app_id = appId}

\* C14: the table never holds two mappings for one app_id, and when
\* updateContextMapping(a, s) has succeeded and the list is reloaded, the
\* table and the list hold exactly one mapping for a, a resolves to s, and a
\* counts as custom when s is not its static default.
C14_UpdateThenResolve ==
    /\ [](\A appId \in ResolvedApps :
            Cardinality(MappingsFor(hostMappings, appId)) <= 1)
    /\ [][\A appId \in UiApps, newStyle \in UiStyles, promptsOk \in BOOLEAN :
            handleStyleChange(appId, newStyle, TRUE, TRUE, promptsOk) =>
              /\ Cardinality(MappingsFor(hostMappings', appId)) = 1
              /\ Cardinality(MappingsFor(mappings', appId)) = 1
              /\ getStyleForApp(appId)' = newStyle
              /\ newStyle # staticDefault(appId) => isCustomMapping(appId)']_vars

\* gmail has been mapped to chat next to the mapping the table already held
C14_Witness ==
    /\ ~isLoading
    /\ Len(hostMappings) = 2
    /\ mappings = hostMappings
    /\ getStyleForApp("gmail") = "chat"
    /\ isCustomMapping("gmail")

(***************************************************************************)
(* Properties of the style prompt store and its editor.                    *)
(***************************************************************************)
\* C15: the Reset button asks for the reset of the selected prompt; a reset
\* of a builtin prompt that succeeds leaves that prompt with its factory
\* name, description and prompt and is_builtin true, whatever updates came
\* before, and leaves the other prompts alone; no prompt's is_builtin ever
\* changes; a reset of a prompt that is not builtin fails and leaves the
\* store as it was.
C15_ResetRoundTrip ==
    /\ [][handleReset =>
            request' = [NoRequest EXCEPT !.op = "reset", !.id = selectedPromptId]]_vars
    /\ [][\A loadOk \in BOOLEAN :
            (request.op = "reset" /\ RequestReturns(TRUE, loadOk)) =>
              /\ findPrompt(hostPrompts', request.id)
                   = findPrompt(FactoryPrompts, request.id)
              /\ findPrompt(hostPrompts', request.id)[1].is_builtin
              /\ \A i \in 1..Len(hostPrompts) :
                    hostPrompts[i].id # request.id
                      => hostPrompts'[i] = hostPrompts[i]]_vars
    /\ [](/\ Len(hostPrompts) = Len(InitialPrompts)
          /\ \A i \in 1..Len(hostPrompts) :
                /\ hostPrompts[i].id = InitialPrompts[i].id
                /\ hostPrompts[i].is_builtin = InitialPrompts[i].is_builtin)
    /\ [][\A id \in SelectIds, persisted \in BOOLEAN :
            (resetContextStylePrompt(id, persisted)
             /\ ~findPrompt(hostPrompts, id)[1].is_builtin)
              => (~HostResetPromptValid(hostPrompts, id)
                  /\ hostPrompts' = hostPrompts)]_vars

\* the store is back at its factory content while the editor, whose reload
\* failed, still lists the edited name of the builtin prompt
C15_Witness ==
    /\ hostPrompts = InitialPrompts
    /\ findPrompt(editorPrompts, "email_pro") # <<>>
    /\ findPrompt(editorPrompts, "email_pro")[1].name = "X"
    /\ request = NoRequest

(***************************************************************************)
(* Properties of the cloud settings screen.                                *)
(***************************************************************************)
\* this step leaves the key / the model selection of provider q as it was,
\* in the persisted config and in the screen's copy
KeysSame(q) ==
    /\ hostConfig'.api_keys[q] = hostConfig.api_keys[q]
    /\ config'.api_keys[q] = config.api_keys[q]

ModelsSame(q) ==
    /\ hostConfig'.selected_models[q] = hostConfig.selected_models[q]
    /\ config'.selected_models[q] = config.selected_models[q]

\* C16: selecting a provider changes no key and no model selection; a key or
\* a model selection of provider q changes only in a step made while q is
\* the selected provider, and that step leaves the active provider, the
\* keys and model selections of every other provider, and (when it changes
\* a key) every model selection, (when it changes a model selection) every
\* key as they were. All of it in the persisted config and in the screen's
\* copy, whatever the commands return.
C16_ProviderIsolation ==
    /\ [][\A p \in ProviderIds, outcome \in Outcomes :
            SelectProvider(p, outcome) =>
              \A q \in ProviderIds : KeysSame(q) /\ ModelsSame(q)]_vars
    /\ [][\A q \in ProviderIds :
            (config # NoConfig /\ ~(KeysSame(q) /\ ModelsSame(q))) =>
              /\ selectedProvider # <<>>
              /\ selectedProvider[1].id = q
              /\ config'.active_provider = config.active_provider
              /\ hostConfig'.active_provider = hostConfig.active_provider
              /\ \A r \in ProviderIds \ {q} : KeysSame(r) /\ ModelsSame(r)
              /\ KeysSame(q) \/ ModelsSame(q)]_vars

\* key k1 was saved for gemini and then k2 for openai
C16_Witness ==
    /\ config # NoConfig
    /\ config.active_provider = "openai"
    /\ config.api_keys["gemini"] = "k1" /\ config.api_keys["openai"] = "k2"
    /\ hostConfig.api_keys["gemini"] = "k1" /\ hostConfig.api_keys["openai"] = "k2"

\* C17: pressing Test, and the test returning, leave the persisted config
\* and the screen's copy as they were.
C17_TestIsReadOnly ==
    [][((\E outcome \in SaveOutcomes : handleTest(outcome))
        \/ (\E result \in TestOutcomes : TestReturns(result)))
         => (hostConfig' = hostConfig /\ config' = config)]_vars

\* C18: a handler whose command returned an error payload leaves the
\* screen's config copy, and the persisted config, as they were.
C18_ErrorLeavesState ==
    [][((\E p \in ProviderIds : SelectProvider(p, "error"))
        \/ handleBlur("error")
        \/ (\E modelId \in ModelIds : SelectModel(modelId, "error")))
         => (config' = config /\ hostConfig' = hostConfig)]_vars

\* C19: when the awaited test ends, the result shown is true if the command
\* returned ok with data true and false in every other case; what
\* handleTestConnection returns is true or false for every stored key and
\* every way the command can end, and true only for a stored key and ok with
\* data true; with no key stored for the provider, Test makes no request and
\* its result is not true; a request carries a stored key.
C19_TestIsBoolean ==
    /\ [][\A result \in TestOutcomes :
            TestReturns(result) =>
              testResult' = (IF result = "ok_true" THEN "true" ELSE "false")]_vars
    /\ [](config # NoConfig =>
            \A p \in ProviderIds, result \in TestOutcomes :
               LET returned == handleTestConnection(config.api_keys[p], result)
               IN  /\ returned \in {"true", "false"}
                   /\ returned = "true" =>
                        (result = "ok_true" /\ Truthy(config.api_keys[p])))
    /\ [][\A outcome \in SaveOutcomes :
            (handleTest(outcome)
             /\ ~Truthy(config.api_keys[selectedProvider[1].id])) =>
              (testRequest' = NoTest /\ ~testIsLoading' /\ testResult' # "true")]_vars
    /\ [](testRequest # NoTest => Truthy(testRequest.key))

\* a test of the stored key has returned ok with data true
C19_Witness ==
    /\ testResult = "true"
    /\ testRequest = NoTest
    /\ ~testIsLoading
    /\ localValue = value

\* C20: the model shown as selected for the selected provider is the
\* provider's selected_models entry when that entry is one of the provider's
\* models, and the provider's default_model otherwise.
C20_EffectiveModel ==
    InputShown =>
        LET entry == config.selected_models[selectedProvider[1].id]
        IN  selectedValue = IF entry \in modelOptions
                            THEN entry
                            ELSE selectedProvider[1].default_model

(***************************************************************************)
(* Properties of the prompt editor's edit session.                         *)
(***************************************************************************)
\* a draft field that is empty once trimmed
Blank(text) == ~Truthy(trim(text))

\* C21: handleSave sends updateContextStylePrompt only for a draft that
\* differs from the loaded prompt in some field and has no blank field.
C21_SaveGuard ==
    [][handleSave =>
         /\ isDirty
         /\ ~Blank(draftName) /\ ~Blank(draftDescription) /\ ~Blank(draftPrompt)]_vars

\* the drafts equal the stored fields of the selected prompt
DraftIsStored ==
    LET stored == findPrompt(hostPrompts, selectedPromptId)
    IN  /\ stored # <<>>
        /\ draftName = stored[1].name
        /\ draftDescription = stored[1].description
        /\ draftPrompt = stored[1].prompt

\* C22: when a save has run to its end, the command having returned ok or
\* an error payload and the store being readable, the drafts equal the
\* stored fields of the selected prompt and the draft is not dirty.
C22_SaveReloads ==
    [][\A persisted \in BOOLEAN :
         (request.op = "update" /\ RequestReturns(persisted, TRUE)) =>
            (DraftIsStored' /\ ~isDirty')]_vars

(***************************************************************************)
(* Properties of the overlay.                                              *)
(***************************************************************************)
\* C23: after a hide-overlay and until the next show-overlay the overlay
\* holds no detected context, in whatever order the events arrive.
C23_ContextOnlyInSession ==
    lifecycle = "hide-overlay" => detectedContext = NoDetected

(***************************************************************************)
(* Further properties of the bridge client.                                *)
(***************************************************************************)
\* C24: an open socket of connect() is the one ws refers to; the close of a
\* socket other than the one ws refers to leaves ws as it was; and no state
\* has an open socket, ws = null and no reconnect timer.
C24_HandleConsistency ==
    /\ [](\A s \in Sockets : readyState[s] = "OPEN" => ws = s)
    /\ [][\A s \in Sockets :
            (Closes(s) /\ ws # NULL /\ ws # s) => ws' = ws]_vars
    /\ [](~(AnyOpen /\ ws = NULL /\ reconnectInterval = NULL))

\* the last frame sent on the connection ws refers to: the newest frame in
\* flight, or the frame the server read last
LastSent ==
    IF chan[ws] # <<>> THEN chan[ws][Len(chan[ws])] ELSE serverCtx

C26_TestsTypedKey ==
    [][\A outcome \in SaveOutcomes :
         handleTest(outcome) =>
            (testRequest' # NoTest /\ testRequest'.key = localValue)]_vars

(***************************************************************************)
(* Properties of the onboarding.                                           *)
(***************************************************************************)
\* the persisted config has an active provider with a key that is not blank
ActiveProviderHasKey ==
    /\ hostConfig.active_provider \in ProviderIds
    /\ ~Blank(hostConfig.api_keys[hostConfig.active_provider])

\* C27: while Continue is enabled the persisted config has an active
\* provider whose key is not blank; onModelSelected is called only by a
\* Continue click made in such a state, after setCloudSttEnabled(true)
\* returned.
C27_OnboardingGate ==
    /\ []((CloudSetup /\ cloudConfigured) => ActiveProviderHasKey)
    /\ [][(~modelSelected /\ modelSelected') =>
            /\ ActiveProviderHasKey
            /\ \E outcome \in {"ok", "error"} :
                  handleCloudSetupComplete(outcome)]_vars

(***************************************************************************)
(* Consistency of the static tables.                                       *)
(***************************************************************************)
\* the app ids detectApp returns for the domains of its table
DetectedApps ==
    {detectApp(domain) : domain \in DOMAIN detectAppMappings} \ {"null"}

\* the app ids the categories of the settings list name
CategoryApps ==
    UNION {{categories[i].apps[j] : j \in 1..Len(categories[i].apps)} :
             i \in 1..Len(categories)}

\* C28: every app id detectApp returns has an entry in DEFAULT_APPS and,
\* while the loaded list holds no mapping for it, resolves to that entry's
\* defaultStyle; every app id of a category has an entry in DEFAULT_APPS.
C28_TableConsistency ==
    /\ \A appId \in DetectedApps :
          /\ findDefaultApp(appId) # <<>>
          /\ findMapping(mappings, appId) = <<>> =>
                getStyleForApp(appId) = staticDefault(appId)
    /\ \A appId \in CategoryApps : findDefaultApp(appId) # <<>>

(***************************************************************************)
(* Further properties of the prompt editor.                                *)
(***************************************************************************)
\* C29: Save and Reset act only while no command of the editor is awaited,
\* isSaving is true exactly while one is awaited, the return of the awaited
\* command sets isSaving to false whether the command was carried out or
\* not, and isSaving, once true, becomes false again.
C29_OneRequestInFlight ==
    /\ [][(handleSave \/ handleReset) =>
            (~isSaving /\ request = NoRequest /\ isSaving'
             /\ request' # NoRequest)]_vars
    /\ [](isSaving <=> request # NoRequest)
    /\ [][\A persisted \in BOOLEAN, loadOk \in BOOLEAN :
            RequestReturns(persisted, loadOk) =>
               (~isSaving' /\ request' = NoRequest)]_vars
    /\ (isSaving ~> ~isSaving)

\* a save that sends a blank field as null is awaited while the draft is
\* still dirty
C29_Witness ==
    /\ isSaving
    /\ request.op = "update"
    /\ request.name = null
    /\ isDirty

(***************************************************************************)
(* Properties of the transcription settings.                               *)
(***************************************************************************)
\* C30: when handleModeChange has run to its end, whatever
\* setCloudSttEnabled returned, the mode shown is cloud exactly if the
\* persisted config has enabled = true.
C30_ModeMatchesConfig ==
    [][\A newMode \in TranscriptionModes, outcome \in Outcomes :
         handleModeChange(newMode, outcome) =>
            (mode' = "cloud" <=> hostConfig'.enabled)]_vars

====
